---- MODULE Spec2Model ----
(***************************************************************************)
(* Batched quadrotor dynamics of environments/drone_dynamics.py.           *)
(*                                                                         *)
(* Numbers are exact rationals <<numerator, denominator>> in lowest terms  *)
(* with a positive denominator.  A tensor of shape (N, w) is a sequence of *)
(* N rows, each a sequence of w rationals; a tensor of shape (N, 3, 3) is  *)
(* a sequence of N matrices, each a sequence of 3 rows.                    *)
(*                                                                         *)
(* Angles are measured in quarter turns.  Cos and Sin are exact at whole   *)
(* quarter turns; an angle between two of them is evaluated at the one     *)
(* below it.  Time is measured so that dt / rotor_speed_half_time is a     *)
(* natural number, which keeps 0.5 ** (dt / half_time) rational.  The      *)
(* rounding of float32 and float64 is not modelled: state.float() keeps    *)
(* every value.                                                            *)
(*                                                                         *)
(* An intermediate result the code names and uses more than once is the    *)
(* parameter of an operator here, so that it is computed once.             *)
(***************************************************************************)
EXTENDS Integers, Sequences, FiniteSets, TLC

VARIABLES state, old_state, action, dt, outcome, calls

vars == <<state, old_state, action, dt, outcome, calls>>

(***************************************************************************)
(* Bounds of the model.                                                    *)
(***************************************************************************)
MaxBatch == 2
MaxCalls == 2

(***************************************************************************)
(* Rational arithmetic.                                                    *)
(***************************************************************************)
RECURSIVE Gcd(_, _)
Gcd(a, b) == IF b = 0 THEN a ELSE Gcd(b, a % b)

IAbs(n) == IF n < 0 THEN 0 - n ELSE n

Reduce(n, d, g) == <<n \div g, d \div g>>
Norm(n, d) == Reduce(n, d, Gcd(IAbs(n), d))

R(n) == <<n, 1>>
Zero == R(0)
One == R(1)
Half == <<1, 2>>

AddOver(x, y, g) ==
    Norm(x[1] * (y[2] \div g) + y[1] * (x[2] \div g), (x[2] \div g) * y[2])

Add(x, y) ==
    IF x[2] = 1 /\ y[2] = 1 THEN <<x[1] + y[1], 1>> ELSE AddOver(x, y, Gcd(x[2], y[2]))

MulOver(x, y, g1, g2) ==
    <<(x[1] \div g1) * (y[1] \div g2), (x[2] \div g2) * (y[2] \div g1)>>

Mul(x, y) ==
    IF x[2] = 1 /\ y[2] = 1 THEN <<x[1] * y[1], 1>>
    ELSE IF x[1] = 0 \/ y[1] = 0 THEN <<0, 1>>
    ELSE MulOver(x, y, Gcd(IAbs(x[1]), y[2]), Gcd(IAbs(y[1]), x[2]))

Neg(x) == <<0 - x[1], x[2]>>
Inv(x) == IF x[1] < 0 THEN <<0 - x[2], 0 - x[1]>> ELSE <<x[2], x[1]>>
Sub(x, y) == Add(x, Neg(y))
Div(x, y) == Mul(x, Inv(y))
Leq(x, y) == x[1] * y[2] <= y[1] * x[2]
Abs(x) == <<IAbs(x[1]), x[2]>>
Max(x, y) == IF Leq(x, y) THEN y ELSE x

RECURSIVE ISqrtFrom(_, _)
ISqrtFrom(n, k) == IF (k + 1) * (k + 1) > n THEN k ELSE ISqrtFrom(n, k + 1)

\* torch.sqrt on the rationals whose numerator and denominator are squares
Sqrt(x) == <<ISqrtFrom(x[1], 0), ISqrtFrom(x[2], 0)>>

RECURSIVE IPow2(_)
IPow2(k) == IF k = 0 THEN 1 ELSE 2 * IPow2(k - 1)

\* 0.5 ** e for a rational e whose value is a natural number
HalfPow(e) == <<1, IPow2(e[1] \div e[2])>>

\* torch.cos, torch.sin
Quadrant(a) == (a[1] \div a[2]) % 4
Cos(a) == R(<<1, 0, 0 - 1, 0>>[Quadrant(a) + 1])
Sin(a) == R(<<0, 1, 0, 0 - 1>>[Quadrant(a) + 1])

(***************************************************************************)
(* Tensor helpers.                                                         *)
(***************************************************************************)
\* row i of a batch under broadcasting: a batch of one row serves every i
Bc(T, i) == IF Len(T) = 1 THEN T[1] ELSE T[i]

\* the batch size two broadcast batches give
BcLen(A, B) == IF Len(A) = 1 THEN Len(B) ELSE Len(A)

\* a tensor is held as the sequence of its evaluated entries
Tensor(f) == f \o <<>>

\* n entries, each of them row
Copies(row, n) == Tensor([i \in 1..n |-> row])

Slice(row, a, b) == Tensor([j \in 1..(b - a) |-> row[a + j]])

VAdd(u, v) == Tensor([j \in 1..Len(u) |-> Add(u[j], v[j])])
VSub(u, v) == Tensor([j \in 1..Len(u) |-> Sub(u[j], v[j])])
VMul(u, v) == Tensor([j \in 1..Len(u) |-> Mul(u[j], v[j])])
VDiv(u, v) == Tensor([j \in 1..Len(u) |-> Div(u[j], v[j])])
VScale(c, v) == Tensor([j \in 1..Len(v) |-> Mul(c, v[j])])

Dot3(u, v) == Add(Add(Mul(u[1], v[1]), Mul(u[2], v[2])), Mul(u[3], v[3]))

Transpose3(M) == Tensor([r \in 1..3 |-> Tensor([c \in 1..3 |-> M[c][r]])])
MatMul3(A, B) == Tensor([r \in 1..3 |-> Tensor([c \in 1..3 |->
                    Add(Add(Mul(A[r][1], B[1][c]), Mul(A[r][2], B[2][c])),
                        Mul(A[r][3], B[3][c]))])])
MatVec3(M, v) == Tensor([r \in 1..3 |-> Dot3(M[r], v)])
Diag3(k) == <<<<k[1], Zero, Zero>>, <<Zero, k[2], Zero>>, <<Zero, Zero, k[3]>>>>

Cross3(u, v) ==
    << Sub(Mul(u[2], v[3]), Mul(u[3], v[2])),
       Sub(Mul(u[3], v[1]), Mul(u[1], v[3])),
       Sub(Mul(u[1], v[2]), Mul(u[2], v[1])) >>

\* torch.squeeze of a (N, 3, 1) tensor: every dimension of size 1 goes, so a
\* batch of one vehicle comes back as a plain 3-vector (rank 1)
Squeeze(T) ==
    IF Len(T) = 1
    THEN [rank |-> 1, rows |-> << Tensor([j \in 1..3 |-> T[1][j][1]]) >>]
    ELSE [rank |-> 2, rows |-> Tensor([i \in 1..Len(T) |-> Tensor([j \in 1..3 |-> T[i][j][1]])])]

\* row i of a squeezed tensor broadcast against a (N, 3) tensor: a rank-1
\* tensor aligns with the trailing dimension and serves every row
SqRow(S, i) == IF S.rank = 1 THEN S.rows[1] ELSE Bc(S.rows, i)
SqLen(S) == IF S.rank = 1 THEN 1 ELSE Len(S.rows)

\* element (i, j) of a (N, w) tensor under broadcasting of both dimensions
BcEl(T, i, j) == Bc(Bc(T, i), j)

BcWidth(A, B) == IF Len(A[1]) = 1 THEN Len(B[1]) ELSE Len(A[1])

\* elementwise A + B, A - B and c * A of (N, w) tensors, with broadcasting
MAdd(A, B) == Tensor([i \in 1..BcLen(A, B) |-> Tensor([j \in 1..BcWidth(A, B) |->
                 Add(BcEl(A, i, j), BcEl(B, i, j))])])
MSub(A, B) == Tensor([i \in 1..BcLen(A, B) |-> Tensor([j \in 1..BcWidth(A, B) |->
                 Sub(BcEl(A, i, j), BcEl(B, i, j))])])
MScale(c, A) == Tensor([i \in 1..Len(A) |-> VScale(c, A[i])])

\* A + S and A - S for a (N, 3) tensor A and a squeezed tensor S
MAddSq(A, S) == Tensor([i \in 1..(IF Len(A) = 1 THEN SqLen(S) ELSE Len(A)) |->
                   VAdd(Bc(A, i), SqRow(S, i))])
MSubSq(A, S) == Tensor([i \in 1..(IF Len(A) = 1 THEN SqLen(S) ELSE Len(A)) |->
                   VSub(Bc(A, i), SqRow(S, i))])
SqScale(c, S) == [rank |-> S.rank, rows |-> MScale(c, S.rows)]

(***************************************************************************)
(* copter_params: the physical parameters of the vehicle.  The module     *)
(* environments/copter.py that sets them is not among the sources; these   *)
(* are sample values of the kinds the data model names.                    *)
(***************************************************************************)
mass == R(2)
thrust_factor == R(1)
arm_length == R(1)
drag_factor == R(2)
max_rotor_speed == R(2)
rotor_speed_half_time == R(1)
rotor_inertia == R(1)
translational_drag == <<R(1), R(1), R(2)>>
rotational_drag == <<R(1), R(1), R(1)>>
frame_inertia == <<R(1), R(1), R(2)>>
gravity == <<R(0), R(0), R(0 - 10)>>

(***************************************************************************)
(* Frame transforms.                                                       *)
(***************************************************************************)
world_to_body_matrix(attitude) ==
    Tensor([i \in 1..Len(attitude) |->
        LET roll == attitude[i][1]
            pitch == attitude[i][2]
            yaw == attitude[i][3]
            Cy == Cos(yaw)
            Sy == Sin(yaw)
            Cp == Cos(pitch)
            Sp == Sin(pitch)
            Cr == Cos(roll)
            Sr == Sin(roll)
            m1 == <<Mul(Cy, Cp), Mul(Sy, Cp), Neg(Sp)>>
            m2 == << Sub(Mul(Mul(Cy, Sp), Sr), Mul(Cr, Sy)),
                     Add(Mul(Cr, Cy), Mul(Mul(Sr, Sy), Sp)),
                     Mul(Cp, Sr) >>
            m3 == << Add(Mul(Mul(Cy, Sp), Cr), Mul(Sr, Sy)),
                     Sub(Mul(Mul(Cr, Sy), Sp), Mul(Cy, Sr)),
                     Mul(Cr, Cp) >>
        IN  <<m1, m2, m3>>])

to_euler_matrix(attitude) ==
    Tensor([i \in 1..Len(attitude) |->
        LET pitch == attitude[i][2]
            roll == attitude[i][1]
            Cp == Cos(pitch)
            Sp == Sin(pitch)
            Cr == Cos(roll)
            Sr == Sin(roll)
            m1 == <<One, Zero, Neg(Sp)>>
            m2 == <<Zero, Cr, Mul(Cp, Sr)>>
            m3 == <<Zero, Neg(Sr), Mul(Cp, Cr)>>
        IN  <<m1, m2, m3>>])

\* together = euler_matrix @ unsqueeze(angular_velocity, 2): (N, 3, 1)
Together(euler_matrix, angular_velocity) ==
    Tensor([i \in 1..BcLen(euler_matrix, angular_velocity) |-> Tensor([r \in 1..3 |->
        << Dot3(Bc(euler_matrix, i)[r], Bc(angular_velocity, i)) >>])])

euler_rate(attitude, angular_velocity) ==
    Squeeze(Together(to_euler_matrix(attitude), angular_velocity))

(***************************************************************************)
(* Force and torque model.                                                 *)
(***************************************************************************)
SquaredSpeedSum(row) ==
    Add(Add(Mul(row[1], row[1]), Mul(row[2], row[2])),
        Add(Mul(row[3], row[3]), Mul(row[4], row[4])))

\* squared_speed = torch.sum(rotor_speed ** 2, axis=1)
SquaredSpeed(rotor_speed) ==
    Tensor([i \in 1..Len(rotor_speed) |-> SquaredSpeedSum(rotor_speed[i])])

\* body_to_world = torch.transpose(world_to_body, 1, 2)
BodyToWorld(world_to_body) ==
    Tensor([i \in 1..Len(world_to_body) |-> Transpose3(world_to_body[i])])

\* torch.matmul(body_to_world, constant_vec), constant_vec = (0, 0, 1)
Direction(body_to_world) ==
    Tensor([i \in 1..Len(body_to_world) |-> MatVec3(body_to_world[i], <<Zero, Zero, One>>)])

\* b / m * torch.mul(direction.t(), squared_speed).t()
ScaledDirection(direction, squared_speed) ==
    Tensor([i \in 1..BcLen(direction, squared_speed) |->
        VScale(Div(thrust_factor, mass), VScale(Bc(squared_speed, i), Bc(direction, i)))])

\* the thrust without its factor squared_speed
Thrust_Unscaled(rotor_speed, body_to_world) ==
    ScaledDirection(Direction(body_to_world), Copies(One, Len(rotor_speed)))

Thrust(rotor_speed, body_to_world) ==
    ScaledDirection(Direction(body_to_world), SquaredSpeed(rotor_speed))

\* Ktw = body_to_world @ (Kt @ world_to_body), Kt = diag(translational_drag)
Ktw(body_to_world, world_to_body) ==
    Tensor([i \in 1..Len(world_to_body) |->
        MatMul3(body_to_world[i], MatMul3(Diag3(translational_drag), world_to_body[i]))])

\* torch.matmul(Ktw, velocity[:, :, None]) / m: (N, 3, 1)
DragColumn(ktw, velocity) ==
    Tensor([i \in 1..BcLen(ktw, velocity) |-> Tensor([r \in 1..3 |->
        << Div(Dot3(Bc(ktw, i)[r], Bc(velocity, i)), mass) >>])])

Drag(body_to_world, world_to_body, velocity) ==
    Squeeze(DragColumn(Ktw(body_to_world, world_to_body), velocity))

\* thrust - drag + gravity in the two frames of one attitude
ThrustMinusDrag(rotor_speed, world_to_body, body_to_world, velocity) ==
    MAdd(MSubSq(Thrust(rotor_speed, body_to_world),
                Drag(body_to_world, world_to_body, velocity)),
         <<gravity>>)

Rotated(rotor_speed, world_to_body, velocity) ==
    ThrustMinusDrag(rotor_speed, world_to_body, BodyToWorld(world_to_body), velocity)

\* the version for batch size 1: the drag of the first vehicle serves all
linear_dynamics_Batch1(rotor_speed, attitude, velocity) ==
    MAdd(MSubSq(Thrust(rotor_speed, BodyToWorld(world_to_body_matrix(attitude))),
                Drag(BodyToWorld(world_to_body_matrix(<<attitude[1]>>)),
                     world_to_body_matrix(<<attitude[1]>>), <<velocity[1]>>)),
         <<gravity>>)

linear_dynamics(rotor_speed, attitude, velocity) ==
    Rotated(rotor_speed, world_to_body_matrix(attitude), velocity)

\* the yaw torque with the sign of net_rotor_speed: r0 - r1 + r2 - r3
propeller_torques_NetSign(rotor_speeds) ==
    Tensor([i \in 1..Len(rotor_speeds) |->
        LET r0 == Mul(rotor_speeds[i][1], rotor_speeds[i][1])
            r1 == Mul(rotor_speeds[i][2], rotor_speeds[i][2])
            r2 == Mul(rotor_speeds[i][3], rotor_speeds[i][3])
            r3 == Mul(rotor_speeds[i][4], rotor_speeds[i][4])
            Lb == Mul(arm_length, thrust_factor)
            motor_torque == Sub(Add(Sub(r0, r1), r2), r3)
        IN  <<Mul(Lb, Sub(r3, r1)), Mul(Lb, Sub(r0, r2)), Mul(drag_factor, motor_torque)>>])

propeller_torques(rotor_speeds) ==
    Tensor([i \in 1..Len(rotor_speeds) |->
        LET r0 == Mul(rotor_speeds[i][1], rotor_speeds[i][1])
            r1 == Mul(rotor_speeds[i][2], rotor_speeds[i][2])
            r2 == Mul(rotor_speeds[i][3], rotor_speeds[i][3])
            r3 == Mul(rotor_speeds[i][4], rotor_speeds[i][4])
            Lb == Mul(arm_length, thrust_factor)
            d == drag_factor
            motor_torque == Sub(Sub(Add(r3, r1), r2), r0)
        IN  <<Mul(Lb, Sub(r3, r1)), Mul(Lb, Sub(r0, r2)), Mul(d, motor_torque)>>])

net_rotor_speed(rotorspeeds) ==
    Tensor([i \in 1..Len(rotorspeeds) |->
        Sub(Add(Sub(rotorspeeds[i][1], rotorspeeds[i][2]), rotorspeeds[i][3]),
            rotorspeeds[i][4])])

\* transformed_av = stack(av[:, 2], -av[:, 1], zeros).t()
TransformedAv(av) == Tensor([i \in 1..Len(av) |-> <<av[i][3], Neg(av[i][2]), Zero>>])

\* gyro = torch.transpose(net_rotor_speed * transformed_av.t(), 0, 1) * J
Gyro(net, transformed_av) ==
    Tensor([i \in 1..BcLen(net, transformed_av) |->
        VScale(Mul(Bc(net, i), rotor_inertia), Bc(transformed_av, i))])

\* drag = Kr * av
RotationalDrag(av) == Tensor([i \in 1..Len(av) |-> VMul(rotational_drag, av[i])])

\* torch.cross(av, inertia * av, dim=1)
InertiaCross(av) == Tensor([i \in 1..Len(av) |-> Cross3(av[i], VMul(frame_inertia, av[i]))])

\* Mp - drag + gyro - cross
angular_momentum_body_frame(rotor_speeds, angular_velocity) ==
    MSub(MAdd(MSub(propeller_torques(rotor_speeds), RotationalDrag(angular_velocity)),
              Gyro(net_rotor_speed(rotor_speeds), TransformedAv(angular_velocity))),
         InertiaCross(angular_velocity))

(***************************************************************************)
(* Tensor shapes.  A shape is a sequence of sizes; Err is the outcome of   *)
(* an operation torch refuses (RuntimeError, IndexError).                  *)
(***************************************************************************)
Err == <<0 - 1>>

ShapeOf(T) == <<Len(T), Len(T[1])>>

IMax(a, b) == IF a < b THEN b ELSE a
IMin(a, b) == IF a < b THEN a ELSE b

PadShape(s, n) == Tensor([k \in 1..n |-> IF k <= n - Len(s) THEN 1 ELSE s[k - (n - Len(s))]])

\* the shape of an elementwise operation on shapes s and t
BroadcastShape(s, t) ==
    IF s = Err \/ t = Err THEN Err
    ELSE LET n == IMax(Len(s), Len(t))
             ps == PadShape(s, n)
             pt == PadShape(t, n)
         IN  IF \A k \in 1..n : ps[k] = pt[k] \/ ps[k] = 1 \/ pt[k] = 1
             THEN Tensor([k \in 1..n |-> IF ps[k] = 1 THEN pt[k] ELSE ps[k]])
             ELSE Err

\* t[:, a:b] and t[:, k] (k counted from 0) of a (N, W) tensor
SliceShape(s, a, b) == IF s = Err THEN Err ELSE <<s[1], IMax(0, IMin(b, s[2]) - a)>>
ColShape(s, k) == IF s = Err \/ s[2] <= k THEN Err ELSE <<s[1]>>

TShape(s) == IF s = Err THEN Err ELSE <<s[2], s[1]>>
SqueezeShape(s) == IF s = Err THEN Err ELSE SelectSeq(s, LAMBDA n : n # 1)

\* torch.vstack / torch.stack of three tensors of shape (N,), then transposed
Stack3Shape(a, b, c) ==
    IF a = Err \/ b = Err \/ c = Err \/ a # b \/ b # c THEN Err ELSE <<a[1], 3>>

\* torch.matmul of a (N, 3, 3) batch with a (M, w, 1) batch
BatchMatVecShape(ms, vs) ==
    IF ms = Err \/ vs = Err \/ vs[2] # 3 THEN Err
    ELSE LET b == BroadcastShape(<<ms[1]>>, <<vs[1]>>)
         IN  IF b = Err THEN Err ELSE <<b[1], 3, 1>>

world_to_body_matrix_shape(att) ==
    LET row == Stack3Shape(ColShape(att, 2), ColShape(att, 1), ColShape(att, 0))
    IN  IF row = Err THEN Err ELSE <<row[1], 3, 3>>

to_euler_matrix_shape(att) ==
    LET row == Stack3Shape(ColShape(att, 1), ColShape(att, 0), ColShape(att, 0))
    IN  IF row = Err THEN Err ELSE <<row[1], 3, 3>>

euler_rate_shape(att, av) ==
    IF av = Err THEN Err
    ELSE SqueezeShape(BatchMatVecShape(to_euler_matrix_shape(att), <<av[1], av[2], 1>>))

linear_dynamics_shape(rs, att, vel) ==
    LET w2b == world_to_body_matrix_shape(att)
        squared_speed == IF rs = Err THEN Err ELSE <<rs[1]>>
        thrust == IF w2b = Err THEN Err
                  ELSE TShape(BroadcastShape(<<3, w2b[1]>>, squared_speed))
        drag == IF vel = Err THEN Err
                ELSE SqueezeShape(BatchMatVecShape(w2b, <<vel[1], vel[2], 1>>))
    IN  BroadcastShape(BroadcastShape(thrust, drag), <<3>>)

propeller_torques_shape(rs) ==
    IF ColShape(rs, 3) = Err THEN Err ELSE <<rs[1], 3>>

net_rotor_speed_shape(rs) == ColShape(rs, 3)

angular_momentum_body_frame_shape(rs, av) ==
    LET zeros == IF av = Err THEN Err ELSE <<av[1]>>
        transformed_av == TShape(Stack3Shape(ColShape(av, 2), ColShape(av, 1), zeros))
        gyro == TShape(BroadcastShape(net_rotor_speed_shape(rs), transformed_av))
        drag == BroadcastShape(<<3>>, av)
        Mp == propeller_torques_shape(rs)
        cross == IF av = Err \/ av[2] # 3 THEN Err ELSE av
    IN  BroadcastShape(BroadcastShape(BroadcastShape(Mp, drag), gyro), cross)

\* torch.hstack: the tensors agree in every dimension but the second
HStackShape(shapes) ==
    IF \E k \in 1..Len(shapes) : shapes[k] = Err \/ Len(shapes[k]) # 2 THEN Err
    ELSE IF \E k \in 1..Len(shapes) : shapes[k][1] # shapes[1][1] THEN Err
    ELSE <<shapes[1][1],
           shapes[1][2] + shapes[2][2] + shapes[3][2] + shapes[4][2]
             + shapes[5][2] + shapes[6][2]>>

\* the shape simulate_quadrotor returns for an action of shape sa and a state
\* of shape ss, or Err when one of its operations raises
simulate_quadrotor_shape(sa, ss) ==
    LET position == SliceShape(ss, 0, 3)
        attitude == SliceShape(ss, 3, 6)
        velocity == SliceShape(ss, 6, 9)
        rotor_speed0 == SliceShape(ss, 9, 13)
        angular_velocity == SliceShape(ss, 17, 20)
        desired_rotor_speeds == sa
        dw == BroadcastShape(desired_rotor_speeds, rotor_speed0)
        rotor_speed == BroadcastShape(rotor_speed0, dw)
        acceleration == linear_dynamics_shape(rotor_speed, attitude, velocity)
        ang_momentum == angular_momentum_body_frame_shape(rotor_speed, angular_velocity)
        angular_acc == BroadcastShape(ang_momentum, <<3>>)
        position1 == BroadcastShape(BroadcastShape(position, acceleration), velocity)
        velocity1 == BroadcastShape(velocity, acceleration)
        angular_velocity1 == BroadcastShape(angular_velocity, angular_acc)
        attitude1 == BroadcastShape(attitude, euler_rate_shape(attitude, angular_velocity1))
    IN  HStackShape(<<position1, attitude1, velocity1, rotor_speed,
                      desired_rotor_speeds, angular_velocity1>>)

(***************************************************************************)
(* The integrator.                                                         *)
(***************************************************************************)
Block(T, a, b) == Tensor([i \in 1..Len(T) |-> Slice(T[i], a, b)])

\* gamma with * written for **: 1.0 - 0.5 * (dt / rotor_speed_half_time)
Gamma_Product(t) == Sub(One, Mul(Half, Div(t, rotor_speed_half_time)))

\* gamma without its complement: 0.5 ** (dt / rotor_speed_half_time)
Gamma_NoComplement(t) == HalfPow(Div(t, rotor_speed_half_time))

\* gamma = 1.0 - 0.5 ** (dt / rotor_speed_half_time)
Gamma(t) == Sub(One, HalfPow(Div(t, rotor_speed_half_time)))

DesiredRotorSpeeds(act) ==
    Tensor([i \in 1..Len(act) |-> Tensor([j \in 1..Len(act[i]) |->
        Mul(Sqrt(act[i][j]), max_rotor_speed)])])

\* the update without its torch.maximum
ClampRotorSpeed_Missing(rotor_speed) == rotor_speed

\* torch.maximum(rotor_speed, zeros)
ClampRotorSpeed(rotor_speed) ==
    Tensor([i \in 1..Len(rotor_speed) |-> Tensor([j \in 1..Len(rotor_speed[i]) |->
        Max(rotor_speed[i][j], Zero)])])

\* dw = gamma * (desired_rotor_speeds - rotor_speed); rotor_speed + dw, clamped
UpdateRotorSpeed(desired_rotor_speeds, rotor_speed, t) ==
    ClampRotorSpeed(MAdd(rotor_speed, MScale(Gamma(t), MSub(desired_rotor_speeds, rotor_speed))))

UpdatePosition(position, acceleration, velocity, t) ==
    MAdd(MAdd(position, MScale(Mul(Mul(Half, t), t), acceleration)),
         MScale(Mul(Half, t), velocity))

UpdateAttitude(attitude, angular_velocity, t) ==
    MAddSq(attitude, SqScale(t, euler_rate(attitude, angular_velocity)))

\* the reassembly with rotor_speed and desired_rotor_speeds exchanged
HStack_Exchanged(position, attitude, velocity, rotor_speed, desired_rotor_speeds, angular_velocity) ==
    Tensor([i \in 1..Len(position) |->
        position[i] \o attitude[i] \o velocity[i] \o desired_rotor_speeds[i]
          \o rotor_speed[i] \o angular_velocity[i]])

HStack(position, attitude, velocity, rotor_speed, desired_rotor_speeds, angular_velocity) ==
    Tensor([i \in 1..Len(position) |->
        position[i] \o attitude[i] \o velocity[i] \o rotor_speed[i]
          \o desired_rotor_speeds[i] \o angular_velocity[i]])

\* the update with the attitude advanced before the angular velocity
Integrate_AttitudeFirst(position, attitude, velocity, rotor_speed, desired_rotor_speeds, angular_velocity, acceleration, angular_acc, t) ==
    HStack(UpdatePosition(position, acceleration, velocity, t),
           UpdateAttitude(attitude, angular_velocity, t),
           MAdd(velocity, MScale(t, acceleration)),
           rotor_speed, desired_rotor_speeds,
           MAdd(angular_velocity, MScale(t, angular_acc)))

\* the reassembly once the angular velocity has advanced
Reassemble(position, attitude, velocity, rotor_speed, desired_rotor_speeds, angular_velocity, acceleration, angular_velocity1, t) ==
    HStack(UpdatePosition(position, acceleration, velocity, t),
           UpdateAttitude(attitude, angular_velocity1, t),
           MAdd(velocity, MScale(t, acceleration)),
           rotor_speed, desired_rotor_speeds, angular_velocity1)

\* the update of the state and its reassembly
Integrate(position, attitude, velocity, rotor_speed, desired_rotor_speeds, angular_velocity, acceleration, angular_acc, t) ==
    Reassemble(position, attitude, velocity, rotor_speed, desired_rotor_speeds,
               angular_velocity, acceleration,
               MAdd(angular_velocity, MScale(t, angular_acc)), t)

\* ang_momentum / frame_inertia
OverInertia(ang_momentum) ==
    Tensor([i \in 1..Len(ang_momentum) |-> VDiv(ang_momentum[i], frame_inertia)])

AngularAcc(rotor_speed, angular_velocity) ==
    OverInertia(angular_momentum_body_frame(rotor_speed, angular_velocity))

\* the accelerations of the updated rotor speed, then the update of the state
Advance(st, desired_rotor_speeds, rotor_speed, t) ==
    Integrate(Block(st, 0, 3), Block(st, 3, 6), Block(st, 6, 9), rotor_speed,
              desired_rotor_speeds, Block(st, 17, 20),
              linear_dynamics(rotor_speed, Block(st, 3, 6), Block(st, 6, 9)),
              AngularAcc(rotor_speed, Block(st, 17, 20)), t)

Respond(st, desired_rotor_speeds, t) ==
    Advance(st, desired_rotor_speeds,
            UpdateRotorSpeed(desired_rotor_speeds, Block(st, 9, 13), t), t)

\* the state simulate_quadrotor returns when none of its operations raises
simulate_quadrotor(act, st, t) == Respond(st, DesiredRotorSpeeds(act), t)

(***************************************************************************)
(* The caller: it holds a state batch and replaces it with what each call  *)
(* of simulate_quadrotor returns; a call that raises leaves it as it was.  *)
(***************************************************************************)
V3(a, b, c) == <<R(a), R(b), R(c)>>
V4(a, b, c, d) == <<R(a), R(b), R(c), R(d)>>

\* sample vehicles: position, attitude, velocity, rotor speed, desired, angular velocity
StateRows ==
    << V3(0, 1, 0) \o V3(0, 1, 3) \o V3(0, 0, 0) \o V4(0 - 1, 0, 2, 1)
         \o V4(0, 1, 0, 1) \o V3(0, 1, 0),
       V3(0, 0, 0) \o V3(0, 0, 0) \o V3(0, 0, 0) \o V4(0, 0, 0, 0)
         \o V4(0, 0, 0, 0) \o V3(0, 0, 0),
       V3(1, 0 - 2, 3) \o V3(1, 0, 2) \o V3(1, 0 - 1, 2) \o V4(1, 2, 1, 2)
         \o V4(3, 3, 3, 3) \o V3(1, 0 - 1, 2),
       V3(2, 2, 2) \o V3(3, 2, 1) \o V3(0 - 1, 1, 0) \o V4(2, 0, 0, 1)
         \o V4(0, 0, 0, 0) \o V3(0, 0, 0 - 1) >>

\* sample per-vehicle actions: non-negative thrust demands with rational roots
ActionRows ==
    << V4(0, 0, 0, 0),
       <<<<1, 4>>, R(1), R(0), <<1, 4>>>>,
       <<<<1, 4>>, R(1), R(0), <<1, 4>>>> >>

Window(rows, n, s) == Tensor([i \in 1..n |-> rows[((s + i - 2) % Len(rows)) + 1]])

StateBatches(n) == {Window(StateRows, n, s) : s \in 1..Len(StateRows)}
                     \cup {Copies(StateRows[3], n)}

ActionBatches(n) == {Window(ActionRows, n, s) : s \in 1..Len(ActionRows)}

\* actions whose shape differs from what the state batch of n vehicles asks for
MismatchedActions(n) ==
    {Window(ActionRows, IF n = 1 THEN 2 ELSE 1, 1),
     Tensor([i \in 1..n |-> <<R(1)>>]),
     Tensor([i \in 1..n |-> V3(1, 0, 1)])}

\* dt: whole multiples of rotor_speed_half_time, dt = 0 among them
Timesteps == {Mul(R(k), rotor_speed_half_time) : k \in {0, 1, 2}}

Init ==
    /\ \E n \in 1..MaxBatch : state \in StateBatches(n)
    /\ old_state = state
    /\ action = <<V4(0, 0, 0, 0)>>
    /\ dt = Zero
    /\ outcome = "none"
    /\ calls = 0

Call(act, t) ==
    /\ calls < MaxCalls
    /\ calls' = calls + 1
    /\ old_state' = state
    /\ action' = act
    /\ dt' = t
    /\ IF simulate_quadrotor_shape(ShapeOf(act), ShapeOf(state)) = Err
       THEN /\ outcome' = "error"
            /\ state' = state
       ELSE /\ outcome' = "returned"
            /\ state' = simulate_quadrotor(act, state, t)

\* the calls the caller makes: an action batch of the state's batch size at any
\* timestep, or one of another shape
Inputs(n) ==
    (ActionBatches(n) \X Timesteps) \cup (MismatchedActions(n) \X {rotor_speed_half_time})

Step == \E in \in Inputs(Len(state)) : Call(in[1], in[2])

Next == Step

Spec == Init /\ [][Next]_vars

(***************************************************************************)
(* Properties.                                                             *)
(***************************************************************************)
\* the last call returned a state
Returned == outcome = "returned"

\* the last call returned, for a state batch of 20-wide rows and an action
\* batch with one 4-vector per vehicle
Aligned == /\ Returned
           /\ Len(old_state[1]) = 20
           /\ ShapeOf(action) = <<Len(old_state), 4>>

\* the rotor speed the last call computed, as the returned state holds it
NewRotorSpeed == Block(state, 9, 13)

IsZeroVec(v) == \A j \in 1..Len(v) : v[j] = Zero
ZeroRows(n, w) == Tensor([i \in 1..n |-> Tensor([j \in 1..w |-> Zero])])

\* C1: the returned position block is old_position + 0.5*dt*dt*acceleration
\* + dt*old_velocity, for the acceleration computed in that step.
C1_PositionFullVelocityTerm ==
    Aligned =>
        Block(state, 0, 3) =
            MAdd(MAdd(Block(old_state, 0, 3),
                      MScale(Mul(Mul(Half, dt), dt),
                             linear_dynamics(NewRotorSpeed, Block(old_state, 3, 6),
                                             Block(old_state, 6, 9)))),
                 MScale(dt, Block(old_state, 6, 9)))

\* C2: every rotor speed of every returned state is >= 0, whatever the input
\* rotor speed was, and a vehicle with rotor speed 0 and action 0 keeps rotor
\* speed 0.
C2_RotorSpeedNonNegative ==
    Returned =>
        /\ \A i \in 1..Len(state) : \A j \in 1..4 : Leq(Zero, state[i][9 + j])
        /\ Aligned =>
             \A i \in 1..Len(state) :
                (IsZeroVec(Slice(old_state[i], 9, 13)) /\ IsZeroVec(action[i]))
                    => IsZeroVec(Slice(state[i], 9, 13))

\* a vehicle whose rotor speed would be negative without the clamp, beside one
\* that rests at rotor speed 0 under action 0
C2_Witness ==
    /\ Aligned
    /\ \E i \in 1..Len(state) : \E j \in 1..4 :
          /\ old_state[i][9 + j][1] < 0
          /\ MAdd(Block(old_state, 9, 13),
                  MScale(Gamma(dt), MSub(DesiredRotorSpeeds(action),
                                         Block(old_state, 9, 13))))[i][j][1] < 0
          /\ state[i][9 + j] = Zero
    /\ \E i \in 1..Len(state) :
          IsZeroVec(Slice(old_state[i], 9, 13)) /\ IsZeroVec(action[i])

\* C3: a call with dt = 0 returns the position, attitude, velocity and angular
\* velocity of its input, gamma is exactly 0, and the rotor speed changes only
\* by the clamp.
C3_ZeroTimestep ==
    (Aligned /\ dt = Zero) =>
        /\ Block(state, 0, 3) = Block(old_state, 0, 3)
        /\ Block(state, 3, 6) = Block(old_state, 3, 6)
        /\ Block(state, 6, 9) = Block(old_state, 6, 9)
        /\ Block(state, 17, 20) = Block(old_state, 17, 20)
        /\ Gamma(dt) = Zero
        /\ \A i \in 1..Len(state) : \A j \in 1..4 :
              state[i][9 + j] = Max(old_state[i][9 + j], Zero)

\* a dt = 0 call on a moving, spinning vehicle under a non-zero action
C3_Witness ==
    /\ Aligned
    /\ dt = Zero
    /\ \E i \in 1..Len(state) :
          /\ ~IsZeroVec(Slice(old_state[i], 6, 9))
          /\ ~IsZeroVec(Slice(old_state[i], 17, 20))
          /\ ~IsZeroVec(Slice(old_state[i], 9, 13))
          /\ ~IsZeroVec(action[i])
          /\ Slice(state[i], 13, 17) # Slice(state[i], 9, 13)

\* C4: row i of the returned batch is what the call returns for row i alone
\* (a batch of one vehicle, through the squeezes), and equal input rows give
\* equal output rows.
C4_BatchIndependence ==
    Aligned =>
        /\ \A i \in 1..Len(old_state) :
              <<state[i]>> = simulate_quadrotor(<<action[i]>>, <<old_state[i]>>, dt)
        /\ \A i, k \in 1..Len(old_state) :
              (old_state[i] = old_state[k] /\ action[i] = action[k])
                  => state[i] = state[k]

\* a batch of two different moving vehicles, stepped with dt > 0
C4_Witness ==
    /\ Aligned
    /\ Len(old_state) = 2
    /\ dt # Zero
    /\ old_state[1] # old_state[2]
    /\ ~IsZeroVec(Slice(old_state[1], 6, 9))
    /\ ~IsZeroVec(Slice(old_state[2], 6, 9))
    /\ Slice(state[1], 3, 6) # Slice(old_state[1], 3, 6)
    /\ state[1] # state[2]

\* C5: a call whose action batch differs from its state batch in batch size or
\* in width ends in an error and returns no state.
C5_MismatchRaises ==
    (calls > 0 /\ ShapeOf(action) # <<Len(old_state), 4>>) => outcome = "error"

\* C6 as stated: the yaw torque is drag_factor times the net rotor speed
\* rotor0 - rotor1 + rotor2 - rotor3, with the sign net_rotor_speed gives it.
C6_YawTorqueIsNetRotorSpeed ==
    Aligned =>
        \A i \in 1..Len(state) :
            propeller_torques(NewRotorSpeed)[i][3]
                = Mul(drag_factor, net_rotor_speed(NewRotorSpeed)[i])

SquaredSpeeds(rotor_speeds) ==
    Tensor([i \in 1..Len(rotor_speeds) |-> VMul(rotor_speeds[i], rotor_speeds[i])])

\* C6 amended: the yaw torque is drag_factor times the alternating combination
\* of the SQUARED rotor speeds with the sign opposite to net_rotor_speed's:
\* drag_factor * (rotor1^2 + rotor3^2 - rotor0^2 - rotor2^2).
C6_YawTorqueSquaredOpposite ==
    Aligned =>
        \A i \in 1..Len(state) :
            propeller_torques(NewRotorSpeed)[i][3]
                = Neg(Mul(drag_factor, net_rotor_speed(SquaredSpeeds(NewRotorSpeed))[i]))

\* rotor speeds whose net speed and net squared speed are both non-zero and differ
C6_Witness ==
    /\ Aligned
    /\ \E i \in 1..Len(state) :
          /\ net_rotor_speed(NewRotorSpeed)[i] # Zero
          /\ propeller_torques(NewRotorSpeed)[i][3] # Zero
          /\ Abs(propeller_torques(NewRotorSpeed)[i][3])
               # Abs(Mul(drag_factor, net_rotor_speed(NewRotorSpeed)[i]))

\* C7: with zero rotor speed and zero velocity linear_dynamics returns exactly
\* gravity for every vehicle, at every attitude.
C7_FreeFall ==
    Len(state[1]) = 20 =>
        linear_dynamics(ZeroRows(Len(state), 4), Block(state, 3, 6),
                        ZeroRows(Len(state), 3))
            = Copies(gravity, Len(state))

\* a batch of two tilted vehicles, one of them between two quarter turns
C7_Witness ==
    /\ Aligned
    /\ Len(state) = 2
    /\ \A i \in 1..2 : \E j \in 4..6 : Quadrant(state[i][j]) # 0
    /\ \E i \in 1..2 : \E j \in 4..6 : state[i][j][2] # 1
    /\ gravity[3] # Zero

WithDesired(st, d) ==
    Tensor([i \in 1..Len(st) |-> Slice(st[i], 0, 13) \o d \o Slice(st[i], 17, 20)])

\* C8: the desired_rotor_speed block of the input is no input of the call, and
\* the returned state is position, attitude, velocity, rotor speed, the
\* sqrt(action) * max_rotor_speed of this call, angular velocity: 20 columns.
C8_DesiredNotAnInput ==
    Aligned =>
        /\ simulate_quadrotor(action, WithDesired(old_state, V4(5, 7, 0 - 3, 1)), dt)
             = state
        /\ \A i \in 1..Len(state) : Len(state[i]) = 20
        /\ Block(state, 13, 17)
             = Tensor([i \in 1..Len(action) |-> Tensor([j \in 1..4 |->
                  Mul(Sqrt(action[i][j]), max_rotor_speed)])])
        /\ Block(state, 9, 13) = UpdateRotorSpeed(DesiredRotorSpeeds(action), Block(old_state, 9, 13), dt)

\* a call whose input held a desired block unlike the one it returns, and whose
\* returned rotor speed differs from the returned desired speed
C8_Witness ==
    /\ Aligned
    /\ dt # Zero
    /\ \E i \in 1..Len(state) :
          /\ Slice(old_state[i], 13, 17) # Slice(state[i], 13, 17)
          /\ ~IsZeroVec(Slice(old_state[i], 13, 17))
          /\ Slice(state[i], 9, 13) # Slice(state[i], 13, 17)
          /\ ~IsZeroVec(Slice(state[i], 13, 17))

\* C9: the accelerations use the rotor speed updated in this step with the
\* attitude, velocity and angular velocity of the input; the angular velocity
\* advances by dt * angular_acc; the attitude advances by
\* dt * euler_rate(input attitude, advanced angular velocity).
C9_StepOrdering ==
    Aligned =>
        /\ Block(state, 6, 9)
             = MAdd(Block(old_state, 6, 9),
                    MScale(dt, linear_dynamics(NewRotorSpeed, Block(old_state, 3, 6),
                                               Block(old_state, 6, 9))))
        /\ Block(state, 17, 20)
             = MAdd(Block(old_state, 17, 20),
                    MScale(dt, AngularAcc(NewRotorSpeed, Block(old_state, 17, 20))))
        /\ Block(state, 3, 6)
             = MAddSq(Block(old_state, 3, 6),
                      SqScale(dt, euler_rate(Block(old_state, 3, 6), Block(state, 17, 20))))

\* a step in which the old and the new rotor speed, the old and the new
\* angular velocity, and the old and the new attitude all give different results
C9_Witness ==
    /\ Aligned
    /\ dt # Zero
    /\ linear_dynamics(NewRotorSpeed, Block(old_state, 3, 6), Block(old_state, 6, 9))
         # linear_dynamics(Block(old_state, 9, 13), Block(old_state, 3, 6),
                           Block(old_state, 6, 9))
    /\ euler_rate(Block(old_state, 3, 6), Block(state, 17, 20))
         # euler_rate(Block(old_state, 3, 6), Block(old_state, 17, 20))
    /\ euler_rate(Block(old_state, 3, 6), Block(state, 17, 20))
         # euler_rate(Block(state, 3, 6), Block(state, 17, 20))

RotorError(act, st, i, j) == Abs(Sub(DesiredRotorSpeeds(act)[i][j], st[i][9 + j]))

\* C10: from a non-negative rotor speed, a step moves each rotor speed towards
\* sqrt(action) * max_rotor_speed without overshoot: the error after the step
\* is 0.5 ** (dt / rotor_speed_half_time) times the error before it, so it
\* never grows, and dt = rotor_speed_half_time halves it.
C10_RotorLagContraction ==
    Aligned =>
        \A i \in 1..Len(state) : \A j \in 1..4 :
            Leq(Zero, old_state[i][9 + j]) =>
                LET desired == DesiredRotorSpeeds(action)[i][j]
                    before == RotorError(action, old_state, i, j)
                    after == RotorError(action, state, i, j)
                IN  /\ after = Mul(HalfPow(Div(dt, rotor_speed_half_time)), before)
                    /\ Leq(after, before)
                    /\ Leq(old_state[i][9 + j], desired)
                         => Leq(state[i][9 + j], desired)
                    /\ Leq(desired, old_state[i][9 + j])
                         => Leq(desired, state[i][9 + j])
                    /\ dt = rotor_speed_half_time => Add(after, after) = before

\* a second step under the action of the first, with dt = rotor_speed_half_time,
\* that halves a non-zero error, with one rotor speeding up and one slowing down
C10_Witness ==
    /\ Aligned
    /\ calls = 2
    /\ dt = rotor_speed_half_time
    /\ \A j \in 1..4 : state[1][13 + j] = old_state[1][13 + j]
    /\ \E j, k \in 1..4 :
          /\ RotorError(action, state, 1, j) # Zero
          /\ old_state[1][9 + j][1] >= 0
          /\ Leq(old_state[1][9 + j], state[1][9 + j])
          /\ old_state[1][9 + j] # state[1][9 + j]
          /\ Leq(state[1][9 + k], old_state[1][9 + k])
          /\ old_state[1][9 + k] # state[1][9 + k]
          /\ old_state[1][9 + k][1] >= 0

====
